---- MODULE Spec2Model ----
(***************************************************************************)
(* A model of the LSP client of codestoryai/lsp_client:                    *)
(*   src/src/lsp/parsing.rs  read_message / parse_header (the framer)      *)
(*   src/src/lsp/client.rs   LanguageServer, LanguageServerRef and the     *)
(*                           read loop spawned by start_language_server    *)
(*                                                                         *)
(* Streams are sequences of bytes.  A byte of the model is a string that   *)
(* stands for a fixed run of real bytes: a header name, the separator      *)
(* ": ", one decimal digit, "\r", "\n", or one member of a JSON body.       *)
(* The length of a body is the number of its bytes in this sense.          *)
(*                                                                         *)
(* Spec is the client with its callers, the read loop and a language       *)
(* server that writes well-formed frames.  FramerSpec is the read loop on  *)
(* a stream of frames, valid and not, that reaches it in chunks of any     *)
(* size.  PipeSpec is the client and a language server that answers each   *)
(* request it reads, over pipes of bounded capacity.                       *)
(***************************************************************************)
EXTENDS Integers, Sequences, FiniteSets, TLC

\* ------------------------------------------------------------------ bounds
\* number of send_request / send_notification calls, each by a task of its own
MaxCalls == 2
\* number of frames the language server writes to its stdout over a run
MaxInbound == 2
\* bytes one poll of write_all hands to the pipe (the last chunk may be shorter)
PipeChunk == 5

\* ------------------------------------------------------------- JSON values
\* serde_json::Value, as far as the client looks into it
Null == [json |-> "null"]
JStr(s) == [json |-> "string", str |-> s]
\* Option<Value>
None == [some |-> FALSE]
Some(v) == [some |-> TRUE, val |-> v]
\* jsonrpc_lite::Error {code, message, data: Option<Value>}
RpcError(c, m, d) == [code |-> c, message |-> m, data |-> d]
\* the JSON object an Error is read from and written as
ErrorObject(e) == [json |-> "object", members |-> e]

\* Result<Value, Value>, the argument of a callback
Ok(v) == [tag |-> "Ok", value |-> v]
Err(v) == [tag |-> "Err", value |-> v]

\* ------------------------------------------------------------------ bytes
CR == "\r"
LF == "\n"
SEP == ": "
DigitChars == <<"0", "1", "2", "3", "4", "5", "6", "7", "8", "9">>
IsDigit(b) == \E i \in 1..10 : DigitChars[i] = b
DigitVal(b) == (CHOOSE i \in 1..10 : DigitChars[i] = b) - 1
IsWhitespace(b) == b \in {" ", CR, LF}
\* a byte that is not valid UTF-8
BadByte == "\\xff"

\* the members of a JSON-RPC body
IdTok(n) == "\"id\":" \o ToString(n)
MethodTok == "\"method\":m,\"params\":p"
ResultTok(r) == "\"result\":" \o r
ErrorTok(e) == "\"error\":" \o e
GarbageTok == "not json"

Results == {"a"}
\* the error objects of the model: without and with a data member
Errors == {"nodata", "data"}
ErrorOf(e) ==
  IF e = "data" THEN RpcError(-32601, "not found", Some(JStr("d")))
  ELSE RpcError(-32601, "not found", None)

\* str::to_lowercase, on the header names of the model
to_lowercase(b) ==
  CASE b = "Content-Length" -> "content-length"
    [] b = "CONTENT-LENGTH" -> "content-length"
    [] b = "Content-Type" -> "content-type"
    [] b = "X-Other" -> "x-other"
    [] OTHER -> b

\* format!("{}", n) for a usize
RECURSIVE Decimal(_)
Decimal(n) ==
  IF n < 10 THEN <<DigitChars[n + 1]>>
  ELSE Decimal(n \div 10) \o <<DigitChars[(n % 10) + 1]>>

\* usize::from_str_radix(s, 10): -1 stands for Err(ParseIntError)
RECURSIVE DigitsValue(_, _)
DigitsValue(s, acc) ==
  IF s = <<>> THEN acc
  ELSE DigitsValue(Tail(s), acc * 10 + DigitVal(Head(s)))

from_str_radix(s) ==
  LET t == IF s # <<>> /\ Head(s) = "+" THEN Tail(s) ELSE s
  IN IF t = <<>> \/ \E i \in 1..Len(t) : ~IsDigit(t[i]) THEN -1
     ELSE DigitsValue(t, 0)

\* str::trim
RECURSIVE TrimStart(_)
TrimStart(s) ==
  IF s # <<>> /\ IsWhitespace(Head(s)) THEN TrimStart(Tail(s)) ELSE s

RECURSIVE TrimEnd(_)
TrimEnd(s) ==
  IF s # <<>> /\ IsWhitespace(s[Len(s)]) THEN TrimEnd(SubSeq(s, 1, Len(s) - 1))
  ELSE s

trim(s) == TrimEnd(TrimStart(s))

\* str::split(": "): the pieces between the separators
RECURSIVE split(_, _)
split(s, cur) ==
  IF s = <<>> THEN <<cur>>
  ELSE IF Head(s) = SEP THEN <<cur>> \o split(Tail(s), <<>>)
  ELSE split(Tail(s), Append(cur, Head(s)))

\* ------------------------------------------------------------- parsing.rs
HEADER_CONTENT_LENGTH == <<"content-length">>
HEADER_CONTENT_TYPE == <<"content-type">>

\* parse_header: [ok, kind, len]; ok = FALSE is Err(ParseError)
parse_header(s) ==
  LET parts == split(s, <<>>)
      norm == [i \in 1..Len(parts) |->
                 LET t == trim(parts[i])
                 IN [j \in 1..Len(t) |-> to_lowercase(t[j])]]
  IN IF Len(norm) # 2 THEN [ok |-> FALSE, kind |-> "Unknown", len |-> 0]
     ELSE IF norm[1] = HEADER_CONTENT_TYPE
       THEN [ok |-> TRUE, kind |-> "ContentType", len |-> 0]
     ELSE IF norm[1] = HEADER_CONTENT_LENGTH
       THEN LET n == from_str_radix(norm[2])
            IN IF n < 0 THEN [ok |-> FALSE, kind |-> "ParseInt", len |-> 0]
               ELSE [ok |-> TRUE, kind |-> "ContentLength", len |-> n]
     ELSE [ok |-> FALSE, kind |-> "Unknown", len |-> 0]

\* the position of the first "\n" of s, 0 when there is none
RECURSIVE NewlineAt(_, _)
NewlineAt(s, i) ==
  IF i > Len(s) THEN 0 ELSE IF s[i] = LF THEN i ELSE NewlineAt(s, i + 1)

Drop(s, n) == SubSeq(s, n + 1, Len(s))

\* AsyncBufReadExt::read_line on the unread bytes s of a stream in state st
\* ("open", "eof": the writer closed it, "broken": reads fail):
\* status "Ok" with the line read (empty at end of stream), "Err" (an I/O
\* error), or "Pending" (the read waits for more bytes)
read_line(s, st) ==
  LET n == NewlineAt(s, 1)
  IN IF n > 0 THEN [status |-> "Ok", line |-> SubSeq(s, 1, n), rest |-> Drop(s, n)]
     ELSE IF st = "open" THEN [status |-> "Pending", line |-> <<>>, rest |-> s]
     ELSE IF st = "eof" THEN [status |-> "Ok", line |-> s, rest |-> <<>>]
     ELSE [status |-> "Err", line |-> <<>>, rest |-> <<>>]

\* a single read: it returns the bytes there are, up to n of them
read_some(s, st, n) ==
  IF Len(s) >= n THEN [status |-> "Ok", bytes |-> SubSeq(s, 1, n), rest |-> Drop(s, n)]
  ELSE IF s # <<>> THEN [status |-> "Ok", bytes |-> s, rest |-> <<>>]
  ELSE IF st = "open" THEN [status |-> "Pending", bytes |-> <<>>, rest |-> s]
  ELSE [status |-> "Err", bytes |-> <<>>, rest |-> <<>>]

\* AsyncReadExt::read_exact of n bytes
read_exact(s, st, n) ==
  IF Len(s) >= n THEN [status |-> "Ok", bytes |-> SubSeq(s, 1, n), rest |-> Drop(s, n)]
  ELSE IF st = "open" THEN [status |-> "Pending", bytes |-> <<>>, rest |-> s]
  ELSE [status |-> "Err", bytes |-> <<>>, rest |-> <<>>]

\* String::from_utf8
from_utf8_ok(bytes) == \A i \in 1..Len(bytes) : bytes[i] # BadByte

Result(st, e, b, r) == [status |-> st, error |-> e, body |-> b, rest |-> r]

\* read_message, from the header loop on: content_length is -1 for None
RECURSIVE read_headers(_, _, _)
read_headers(s, st, content_length) ==
  LET l == read_line(s, st)
  IN IF l.status = "Pending" THEN Result("Pending", "", <<>>, s)
     ELSE IF l.status = "Err" THEN Result("Err", "Io", <<>>, l.rest)
     ELSE IF trim(l.line) = <<>>
       THEN \* empty line is end of headers
            IF content_length < 0
              THEN Result("Err", "MissingContentLength", <<>>, l.rest)
            ELSE LET b == read_exact(l.rest, st, content_length)
                 IN IF b.status = "Pending" THEN Result("Pending", "", <<>>, s)
                    ELSE IF b.status = "Err" THEN Result("Err", "Io", <<>>, b.rest)
                    ELSE IF ~from_utf8_ok(b.bytes)
                      THEN Result("Err", "Utf8", <<>>, b.rest)
                    ELSE Result("Ok", "", b.bytes, b.rest)
     ELSE LET h == parse_header(l.line)
          IN IF ~h.ok THEN Result("Err", h.kind, <<>>, l.rest)
             ELSE IF h.kind = "ContentLength"
               THEN LET r == read_headers(l.rest, st, h.len)
                    IN IF r.status = "Pending" THEN Result("Pending", "", <<>>, s)
                       ELSE r
             ELSE LET r == read_headers(l.rest, st, content_length)
                  IN IF r.status = "Pending" THEN Result("Pending", "", <<>>, s)
                     ELSE r

read_message(s, st) == read_headers(s, st, -1)

\* ------------------------------------------------------------- client.rs
\* prepare_lsp_json: "Content-Length: {}\r\n\r\n{}"
prepare_lsp_json(body) ==
  <<"Content-Length", SEP>> \o Decimal(Len(body)) \o <<CR, LF, CR, LF>> \o body

\* json!({"jsonrpc", "id", "method", "params"}) and its serialisation
RequestBody(id) == <<IdTok(id), MethodTok>>
\* a notification that takes an id all the same
NotificationWithId == <<IdTok(0), MethodTok>>
NotificationBody == <<MethodTok>>

\* jsonrpc_lite's JsonRpc::parse with get_id, get_result and get_error: the
\* body is tried as a Request, a Notification, a Success and an Error in turn
HasTok(body, t) == \E i \in 1..Len(body) : body[i] = t
IdTokens == 0..(MaxCalls + 1)
\* a parse that reads a missing id as the id of the first request and a
\* missing result as null
ParseMissingAsDefault(body) ==
  [ok |-> TRUE, id |-> Some(1), result |-> Some(Null), error |-> None]
JsonRpcParse(body) ==
  LET hasId == \E n \in IdTokens : HasTok(body, IdTok(n))
      id == CHOOSE n \in IdTokens : HasTok(body, IdTok(n))
      hasMethod == HasTok(body, MethodTok)
      hasResult == \E r \in Results : HasTok(body, ResultTok(r))
      result == CHOOSE r \in Results : HasTok(body, ResultTok(r))
      hasError == \E e \in Errors : HasTok(body, ErrorTok(e))
      error == CHOOSE e \in Errors : HasTok(body, ErrorTok(e))
      msg(i, r, e) == [ok |-> TRUE, id |-> i, result |-> r, error |-> e]
  IN IF HasTok(body, GarbageTok) \/ HasTok(body, BadByte)
       THEN [ok |-> FALSE, id |-> None, result |-> None, error |-> None]
     ELSE IF hasMethod /\ hasId THEN msg(Some(id), None, None)
     ELSE IF hasMethod THEN msg(None, None, None)
     ELSE IF hasResult /\ hasId THEN msg(Some(id), Some(JStr(result)), None)
     ELSE IF hasError /\ hasId THEN msg(Some(id), None, Some(ErrorOf(error)))
     ELSE [ok |-> FALSE, id |-> None, result |-> None, error |-> None]

\* HashMap::insert and HashMap::remove on the pending table
Insert(p, id, cb) ==
  [i \in (DOMAIN p) \cup {id} |-> IF i = id THEN cb ELSE p[i]]
\* a lookup that leaves the entry in the table
RemoveNothing(p, id) == p
Remove(p, id) == [i \in (DOMAIN p) \ {id} |-> p[i]]

\* ------------------------------------------------------------------ state
VARIABLES
  next_id,       \* LanguageServer.next_id
  pending,       \* LanguageServer.pending: id -> callback (the number of its call)
  peer,          \* LanguageServer.peer: the bytes written to the child's stdin
  lock,          \* the Mutex of LanguageServerRef: 0 free, else the call holding it
  poisoned,      \* the Mutex is poisoned: a holder panicked
  stdin_state,   \* "open", or "broken": the child closed its stdin, writes fail
  calls,         \* the calls made, in the order they took the lock:
                 \* [kind, id, outcome], outcome "running" inside write_all
  cbuf,          \* for each call, the bytes of its frame write_all has yet to write
  stdout,        \* the bytes of the child's stdout the reader holds unread
  stdout_state,  \* "open", or "closed": the stream has ended
  frames_in,     \* the number of frames the child has written
  rpc,           \* the read loop: "read", "handle" or "panicked"
  rval,          \* the body read_message returned to the loop
  peer_call,     \* history: for each byte of peer, the call that wrote it
  invoked,       \* history: the callbacks invoked, [cb, arg], in order
  resolved,      \* history: the calls of handle_response / handle_error:
                 \* [fn, id, cb, sent], cb 0 when the id was missing, sent when
                 \* bytes of the request with this id had been written by then
  end_seen,      \* history: a read of the loop has met the end of the stream
  returned,      \* history: what read_message returned to the loop, in order:
                 \* [status, error, body], for the reads that took bytes
  wire,          \* the bytes of the child's output that have yet to reach the pipe
  input,         \* history: the frames the child's output is made of
  stdout_pipe,   \* the bytes in the pipe of the child's stdout, not yet taken
                 \* by the reader
  srv_taken,     \* the number of bytes of peer the child has read from its stdin
  srv_buf        \* the bytes the child has read and not yet parsed

vars == <<next_id, pending, peer, lock, poisoned, stdin_state, calls, cbuf,
          stdout, stdout_state, frames_in, rpc, rval, peer_call, invoked,
          resolved, end_seen, returned, wire, input, stdout_pipe, srv_taken,
          srv_buf>>

client_vars == <<next_id, pending, peer, lock, poisoned, calls, cbuf, peer_call>>
reader_vars == <<rpc, rval, invoked, resolved, end_seen, returned>>
pipe_vars == <<stdout_pipe, srv_taken, srv_buf>>
server_vars == <<stdin_state, stdout, stdout_state, frames_in, wire, input, pipe_vars>>

\* LanguageServerRef::new, and start_language_server up to the spawn
Init ==
  /\ next_id = 1
  /\ pending = <<>>
  /\ peer = <<>>
  /\ lock = 0
  /\ poisoned = FALSE
  /\ stdin_state = "open"
  /\ calls = <<>>
  /\ cbuf = <<>>
  /\ stdout = <<>>
  /\ stdout_state = "open"
  /\ frames_in = 0
  /\ rpc = "read"
  /\ rval = <<>>
  /\ peer_call = <<>>
  /\ invoked = <<>>
  /\ resolved = <<>>
  /\ end_seen = FALSE
  /\ returned = <<>>
  /\ wire = <<>>
  /\ input = <<>>
  /\ stdout_pipe = <<>>
  /\ srv_taken = 0
  /\ srv_buf = <<>>

Call(kind, id, outcome) == [kind |-> kind, id |-> id, outcome |-> outcome]
PanicPoisoned == "panic: poisoned lock"
PanicWrite == "panic: error writing to stdin"

\* a Mutex that excludes nobody
LockNeverHeld(l) == TRUE

\* Mutex::lock: it waits while another holds the lock
LockFree(l) == l = 0

\* self.0.lock().unwrap() on a poisoned Mutex: the call panics
LockPanics(kind) ==
  /\ poisoned
  /\ calls' = Append(calls, Call(kind, 0, PanicPoisoned))
  /\ cbuf' = Append(cbuf, <<>>)
  /\ UNCHANGED <<next_id, pending, peer, lock, poisoned, peer_call>>

\* send_request: the id put into the request, the key the callback is
\* inserted under, and next_id after the call
RequestId(n) == n
\* the callback inserted after the increment
RegisteredAfterIncrement(n) == n + 1
RegisteredId(n) == n
\* the increment left out, and an increment by two
NextIdStuck(n) == n
NextIdSkips(n) == n + 2
NextIdAfter(n) == n + 1

\* LanguageServerRef::send_request down to the first poll of write_all: the
\* lock is taken, the callback registered under next_id, next_id incremented,
\* and the frame prepared.  Each call runs in a task of its own; the calls are
\* numbered in the order they take the lock.
SendRequest ==
  /\ Len(calls) < MaxCalls
  /\ LockFree(lock)
  /\ \/ LockPanics("request")
     \/ /\ ~poisoned
        /\ LET k == Len(calls) + 1
           IN /\ pending' = Insert(pending, RegisteredId(next_id), k)
              /\ next_id' = NextIdAfter(next_id)
              /\ cbuf' = Append(cbuf, prepare_lsp_json(RequestBody(RequestId(next_id))))
              /\ calls' = Append(calls, Call("request", RequestId(next_id), "running"))
              /\ lock' = k
        /\ UNCHANGED <<peer, poisoned, peer_call>>
  /\ UNCHANGED <<reader_vars, server_vars>>

\* LanguageServerRef::send_notification down to the first poll of write_all
SendNotification ==
  /\ Len(calls) < MaxCalls
  /\ LockFree(lock)
  /\ \/ LockPanics("notification")
     \/ /\ ~poisoned
        /\ cbuf' = Append(cbuf, prepare_lsp_json(NotificationBody))
        /\ calls' = Append(calls, Call("notification", 0, "running"))
        /\ lock' = Len(calls) + 1
        /\ UNCHANGED <<next_id, pending, peer, poisoned, peer_call>>
  /\ UNCHANGED <<reader_vars, server_vars>>

\* the sizes of the chunk one poll of write_all may hand to the pipe
ChunkSizes(buf) == {n \in 1..Len(buf) : n = Len(buf) \/ n = PipeChunk}

SetOutcome(k, o) == [calls EXCEPT ![k].outcome = o]

\* LanguageServer::write: one poll of write_all.  A failed write panics
\* (expect) with the lock held, which poisons the Mutex; after the last chunk
\* flush succeeds, the call returns and the guard is dropped.
Write(k) ==
  /\ calls[k].outcome = "running"
  /\ \/ /\ stdin_state = "broken"
        /\ poisoned' = TRUE
        /\ lock' = 0
        /\ calls' = SetOutcome(k, PanicWrite)
        /\ UNCHANGED <<next_id, pending, peer, cbuf, peer_call>>
     \/ /\ stdin_state = "open"
        /\ \E n \in ChunkSizes(cbuf[k]) :
             /\ peer' = peer \o SubSeq(cbuf[k], 1, n)
             /\ peer_call' = peer_call \o [i \in 1..n |-> k]
             /\ cbuf' = [cbuf EXCEPT ![k] = Drop(cbuf[k], n)]
             /\ IF n = Len(cbuf[k])
                  THEN lock' = 0 /\ calls' = SetOutcome(k, "returned")
                  ELSE UNCHANGED <<lock, calls>>
        /\ UNCHANGED <<next_id, pending, poisoned>>
  /\ UNCHANGED <<reader_vars, server_vars>>

\* a dispatch in the order of the requests: the oldest pending callback is
\* called, whatever the id of the response
handle_response_oldest(p, id, result) ==
  IF id \in DOMAIN p
    THEN LET first == CHOOSE i \in DOMAIN p : \A j \in DOMAIN p : i <= j
         IN [panic |-> FALSE, pending |-> Remove(p, first), cb |-> p[first],
             arg |-> Ok(result)]
  ELSE [panic |-> TRUE, pending |-> p, cb |-> 0, arg |-> Ok(result)]

\* handle_response: the callback is taken out of the table and called with
\* Ok(result); a missing id panics (expect)
handle_response(p, id, result) ==
  IF id \in DOMAIN p
    THEN [panic |-> FALSE, pending |-> Remove(p, id), cb |-> p[id], arg |-> Ok(result)]
  ELSE [panic |-> TRUE, pending |-> p, cb |-> 0, arg |-> Ok(result)]

\* the value handle_error passes on: error.data.unwrap_or(Value::Null)
ErrorPayload(error) == IF error.data.some THEN error.data.val ELSE Null

\* handle_error: the callback is taken out of the table and called with Err
handle_error(p, id, error) ==
  IF id \in DOMAIN p
    THEN [panic |-> FALSE, pending |-> Remove(p, id), cb |-> p[id],
          arg |-> Err(ErrorPayload(error))]
  ELSE [panic |-> TRUE, pending |-> p, cb |-> 0, arg |-> Err(ErrorPayload(error))]

\* the read loop's read_message: it returns once the frame, or the failure,
\* is decided by the bytes there are; an error is printed and the loop goes on.
\* A read of an ended stream finds end of file or fails.
ReadMessage ==
  /\ rpc = "read"
  /\ \E st \in IF stdout_state = "open" THEN {"open"} ELSE {"eof", "broken"} :
       LET r == read_message(stdout, st)
       IN /\ r.status # "Pending"
          /\ stdout' = r.rest
          /\ IF r.status = "Ok"
               THEN rpc' = "handle" /\ rval' = r.body
               ELSE rpc' = "read" /\ rval' = <<>>
          /\ returned' = IF stdout = <<>> THEN returned
                          ELSE Append(returned, [status |-> r.status, error |-> r.error,
                                                 body |-> r.body])
  /\ end_seen' = (end_seen \/ (stdout = <<>> /\ stdout_state = "closed"))
  /\ UNCHANGED <<client_vars, stdin_state, stdout_state, frames_in, wire, input,
                 pipe_vars, invoked, resolved>>

\* the ids of the requests of which bytes have been written to peer
WrittenIds == {calls[peer_call[i]].id : i \in 1..Len(peer_call)} \ {0}

\* the two arms of handle_msg that take the lock: lock().unwrap() panics on a
\* poisoned Mutex; a panic inside (try_into().unwrap() of a negative id, the
\* expect of a missing id) poisons it; else the callback runs under the lock
Resolve(fn, id, r) ==
  /\ LockFree(lock)
  /\ IF poisoned
       THEN /\ rpc' = "panicked"
            /\ UNCHANGED <<pending, poisoned, invoked, resolved>>
     ELSE IF id < 0
       THEN /\ rpc' = "panicked"
            /\ poisoned' = TRUE
            /\ UNCHANGED <<pending, invoked, resolved>>
     ELSE /\ resolved' = Append(resolved, [fn |-> fn, id |-> id, cb |-> r.cb,
                                        sent |-> id \in WrittenIds])
          /\ IF r.panic
               THEN /\ rpc' = "panicked"
                    /\ poisoned' = TRUE
                    /\ UNCHANGED <<pending, invoked>>
               ELSE /\ rpc' = "read"
                    /\ pending' = r.pending
                    /\ poisoned' = poisoned
                    /\ invoked' = Append(invoked, [cb |-> r.cb, arg |-> r.arg])

\* LanguageServerRef::handle_msg on the body the loop read
HandleMsg ==
  /\ rpc = "handle"
  /\ LET m == JsonRpcParse(rval)
     IN IF ~m.ok
          THEN /\ rpc' = "read"
               /\ UNCHANGED <<pending, poisoned, invoked, resolved>>
        ELSE IF m.id.some /\ m.result.some /\ ~m.error.some
          THEN Resolve("handle_response", m.id.val,
                       handle_response(pending, m.id.val, m.result.val))
        ELSE IF m.id.some /\ ~m.result.some /\ m.error.some
          THEN Resolve("handle_error", m.id.val,
                       handle_error(pending, m.id.val, m.error.val))
        ELSE IF m.id.some /\ m.result.some /\ m.error.some
          THEN /\ rpc' = "panicked"
               /\ UNCHANGED <<pending, poisoned, invoked, resolved>>
        ELSE /\ rpc' = "read"
             /\ UNCHANGED <<pending, poisoned, invoked, resolved>>
  /\ rval' = <<>>
  /\ UNCHANGED <<next_id, peer, lock, calls, cbuf, peer_call, server_vars, end_seen,
                 returned>>

\* ------------------------------------------------------ the language server
\* the ids the server answers to, and the bodies it writes
ServerIds == 1..MaxCalls
ServerBodies ==
  {<<IdTok(i), ResultTok(r)>> : i \in ServerIds, r \in Results}
    \cup {<<IdTok(i), ErrorTok(e)>> : i \in ServerIds, e \in Errors}
    \cup {<<IdTok(i), ResultTok(r), ErrorTok("nodata")>> : i \in ServerIds, r \in Results}
    \cup {NotificationBody, <<GarbageTok>>}

\* the server writes one frame to its stdout. The frame is written when the
\* read loop waits for it: a frame that waits in the pipe behind another, or
\* while the loop handles the one before, is seen by nothing but the read that
\* takes it, so writing it later gives the client the same frames in the
\* same order.
ServerSend(body) ==
  /\ stdout_state = "open"
  /\ frames_in < MaxInbound
  /\ stdout = <<>>
  /\ rpc = "read"
  /\ stdout' = stdout \o prepare_lsp_json(body)
  /\ frames_in' = frames_in + 1
  /\ UNCHANGED <<client_vars, reader_vars, stdin_state, stdout_state, wire, input,
                 pipe_vars>>

\* the server's stdout ends: it is closed, or breaks
ServerCloseStdout ==
  /\ stdout_state = "open"
  /\ stdout_state' = "closed"
  /\ UNCHANGED <<client_vars, reader_vars, stdin_state, stdout, frames_in, wire, input,
                 pipe_vars>>

\* the server closes its stdin: writes to it fail from now on
ServerCloseStdin ==
  /\ stdin_state = "open"
  /\ stdin_state' = "broken"
  /\ UNCHANGED <<client_vars, reader_vars, stdout, stdout_state, frames_in, wire, input,
                 pipe_vars>>

Next ==
  \/ SendRequest
  \/ SendNotification
  \/ \E k \in 1..Len(calls) : Write(k)
  \/ ReadMessage
  \/ HandleMsg
  \/ \E body \in ServerBodies : ServerSend(body)
  \/ ServerCloseStdout
  \/ ServerCloseStdin

Spec == Init /\ [][Next]_vars

\* ---------------------------------------- the read loop on a stream of frames
\* number of frames in the child's output
MaxFrames == 2

\* the frames of the child's output: the header lines, the length the length
\* header declares, and the body that follows the blank line
HeaderLine(name, value) == <<name, SEP>> \o value \o <<CR, LF>>
FrameKinds == {"plain", "typed", "upper", "nosep", "nolength", "badutf8", "unknown"}
FrameLength(f) == 2
FrameBody(f) ==
  CASE f = "plain" -> <<"p1", "p2">>
    [] f = "typed" -> <<"t1", "t2">>
    [] f = "upper" -> <<LF, "u2">>
    [] f = "nosep" -> <<"m1", "m2">>
    [] f = "nolength" -> <<"n1", "n2">>
    [] f = "badutf8" -> <<"b1", BadByte>>
    [] f = "unknown" -> <<"x1", "x2">>
FrameHeaders(f) ==
  CASE f = "plain" -> HeaderLine("Content-Length", Decimal(FrameLength(f)))
    [] f = "typed" -> HeaderLine("Content-Length", Decimal(FrameLength(f)))
                        \o HeaderLine("Content-Type", <<"utf8">>)
    [] f = "upper" -> HeaderLine("CONTENT-LENGTH", <<" ">> \o Decimal(FrameLength(f)))
    [] f = "nosep" -> <<"Content-Length">> \o Decimal(FrameLength(f)) \o <<CR, LF>>
    [] f = "nolength" -> HeaderLine("Content-Type", <<"utf8">>)
    [] f = "badutf8" -> HeaderLine("Content-Length", Decimal(FrameLength(f)))
    [] f = "unknown" -> HeaderLine("X-Other", <<"v">>)
                          \o HeaderLine("Content-Length", Decimal(FrameLength(f)))
FrameBytes(f) == FrameHeaders(f) \o <<CR, LF>> \o FrameBody(f)

RECURSIVE StreamOf(_)
StreamOf(frames) ==
  IF frames = <<>> THEN <<>> ELSE FrameBytes(Head(frames)) \o StreamOf(Tail(frames))

Inputs == UNION {[1..n -> FrameKinds] : n \in 1..MaxFrames}

\* start_language_server on a child whose output is the frames of input
FramerInit ==
  /\ input \in Inputs
  /\ wire = StreamOf(input)
  /\ next_id = 1
  /\ pending = <<>>
  /\ peer = <<>>
  /\ lock = 0
  /\ poisoned = FALSE
  /\ stdin_state = "open"
  /\ calls = <<>>
  /\ cbuf = <<>>
  /\ stdout = <<>>
  /\ stdout_state = "open"
  /\ frames_in = 0
  /\ rpc = "read"
  /\ rval = <<>>
  /\ peer_call = <<>>
  /\ invoked = <<>>
  /\ resolved = <<>>
  /\ end_seen = FALSE
  /\ returned = <<>>
  /\ stdout_pipe = <<>>
  /\ srv_taken = 0
  /\ srv_buf = <<>>

\* the next n bytes of the child's output reach the pipe: the stream hands
\* the frames to the reader in chunks of any size
Deliver(n) ==
  /\ stdout_state = "open"
  /\ stdout' = stdout \o SubSeq(wire, 1, n)
  /\ wire' = Drop(wire, n)
  /\ UNCHANGED <<client_vars, reader_vars, stdin_state, stdout_state, frames_in, input,
                 pipe_vars>>

FramerNext ==
  \/ \E n \in 1..Len(wire) : Deliver(n)
  \/ ReadMessage
  \/ HandleMsg
  \/ ServerCloseStdout

FramerSpec == FramerInit /\ [][FramerNext]_vars

\* ------------------------------------------------ the client over bounded pipes
\* the capacities of the pipes of the child's stdin and stdout, in bytes
StdinCap == 4
StdoutCap == 4

Min(a, b) == IF a < b THEN a ELSE b

\* the bytes in the pipe of the child's stdin, and the room left in each pipe
StdinUsed == Len(peer) - srv_taken
StdinRoom == StdinCap - StdinUsed
StdoutRoom == StdoutCap - Len(stdout_pipe)

\* LanguageServer::write over a pipe: a poll of write_all hands the pipe what
\* it has room for and is Pending when the pipe is full.  The guard taken in
\* LanguageServerRef::send_request is held over every poll and dropped when
\* the call returns.
PipeWrite(k) ==
  /\ calls[k].outcome = "running"
  /\ stdin_state = "open"
  /\ StdinRoom > 0
  /\ LET n == Min(StdinRoom, Len(cbuf[k]))
     IN /\ peer' = peer \o SubSeq(cbuf[k], 1, n)
        /\ peer_call' = peer_call \o [i \in 1..n |-> k]
        /\ cbuf' = [cbuf EXCEPT ![k] = Drop(cbuf[k], n)]
        /\ IF n = Len(cbuf[k])
             THEN lock' = 0 /\ calls' = SetOutcome(k, "returned")
             ELSE UNCHANGED <<lock, calls>>
  /\ UNCHANGED <<next_id, pending, poisoned>>
  /\ UNCHANGED <<reader_vars, server_vars>>

\* the reader of the loop fills its buffer from the pipe.  It does so inside
\* read_message only: while the loop is in handle_msg nothing takes bytes out
\* of the pipe.
fill_buf ==
  /\ rpc = "read"
  /\ stdout_state = "open"
  /\ stdout_pipe # <<>>
  /\ stdout' = stdout \o stdout_pipe
  /\ stdout_pipe' = <<>>
  /\ UNCHANGED <<client_vars, reader_vars, stdin_state, stdout_state, frames_in, wire,
                 input, srv_taken, srv_buf>>

\* the language server is one loop: it reads a message from its stdin, writes
\* what it has to say about it to its stdout, and reads the next.  While a
\* write of its own is under way it reads nothing.
ServerTake ==
  /\ wire = <<>>
  /\ StdinUsed > 0
  /\ srv_buf' = srv_buf \o SubSeq(peer, srv_taken + 1, Len(peer))
  /\ srv_taken' = Len(peer)
  /\ UNCHANGED <<client_vars, reader_vars, stdin_state, stdout, stdout_state, frames_in,
                 wire, input, stdout_pipe>>

\* what the server writes on a message: the result of a request, after it
\* nothing or a notification of its own; nothing on a notification
ServerAnswers(body) ==
  LET m == JsonRpcParse(body)
  IN IF m.ok /\ m.id.some
       THEN {prepare_lsp_json(<<IdTok(m.id.val), ResultTok(r)>>) \o more :
               r \in Results, more \in {<<>>, prepare_lsp_json(NotificationBody)}}
     ELSE {<<>>}

ServerHandle ==
  /\ wire = <<>>
  /\ LET r == read_message(srv_buf, "open")
     IN /\ r.status = "Ok"
        /\ srv_buf' = r.rest
        /\ \E out \in ServerAnswers(r.body) : wire' = out
  /\ UNCHANGED <<client_vars, reader_vars, stdin_state, stdout, stdout_state, frames_in,
                 input, stdout_pipe, srv_taken>>

\* the server's write: the pipe takes what it has room for; on a full pipe
\* the server waits
ServerWrite ==
  /\ wire # <<>>
  /\ StdoutRoom > 0
  /\ LET n == Min(StdoutRoom, Len(wire))
     IN /\ stdout_pipe' = stdout_pipe \o SubSeq(wire, 1, n)
        /\ wire' = Drop(wire, n)
  /\ UNCHANGED <<client_vars, reader_vars, stdin_state, stdout, stdout_state, frames_in,
                 input, srv_taken, srv_buf>>

PipeNext ==
  \/ SendRequest
  \/ SendNotification
  \/ \E k \in 1..Len(calls) : PipeWrite(k)
  \/ fill_buf
  \/ ReadMessage
  \/ HandleMsg
  \/ ServerTake
  \/ ServerHandle
  \/ ServerWrite

PipeSpec == Init /\ [][PipeNext]_vars

\* ---------------------------------------------------------------- claims
\* the calls that were given an id: the requests that took the lock unpoisoned
Assigned == {k \in 1..Len(calls) : calls[k].kind = "request" /\ calls[k].id # 0}
\* the ids handle_response / handle_error found in the table
ResolvedIds == {resolved[i].id : i \in {j \in 1..Len(resolved) : resolved[j].cb # 0}}
\* the body and the frame of a call
BodyOf(c) == IF c.kind = "request" THEN RequestBody(c.id) ELSE NotificationBody
FrameOf(c) == prepare_lsp_json(BodyOf(c))
\* the bytes of peer written by call k, in order
RECURSIVE BytesOf(_, _)
BytesOf(k, i) ==
  IF i > Len(peer) THEN <<>>
  ELSE (IF peer_call[i] = k THEN <<peer[i]>> ELSE <<>>) \o BytesOf(k, i + 1)
IsPrefix(s, t) == Len(s) <= Len(t) /\ s = SubSeq(t, 1, Len(s))

\* C1: every request id of which a byte has been written to the outbound
\* stream and that has not been resolved has a callback in the pending table;
\* and a lookup that misses is never for such an id: it is for an id of which
\* nothing was written, or for one resolved before.
C1_WrittenIdsAreRegistered ==
  /\ \A id \in WrittenIds \ ResolvedIds : id \in DOMAIN pending
  /\ \A i \in 1..Len(resolved) :
       resolved[i].cb = 0 =>
         \/ ~resolved[i].sent
         \/ \E j \in 1..(i - 1) : resolved[j].id = resolved[i].id /\ resolved[j].cb # 0

\* a request is partly written, its callback is registered, and the read loop
\* already holds a response for its id and waits for the lock
C1_Witness ==
  \E k \in Assigned :
    /\ calls[k].outcome = "running"
    /\ cbuf[k] # <<>> /\ Len(cbuf[k]) < Len(FrameOf(calls[k]))
    /\ calls[k].id \in WrittenIds
    /\ pending[calls[k].id] = k
    /\ rpc = "handle" /\ HasTok(rval, IdTok(calls[k].id))

\* C2: next_id starts at 1; a send_request takes the current next_id as its id
\* and leaves next_id one higher; no step lowers next_id; no two requests
\* have the same id.
C2_IdsFromCounter ==
  /\ next_id = 1
  /\ [][/\ next_id' >= next_id
        /\ (Len(calls') > Len(calls) /\ Len(calls') \in Assigned') =>
             /\ calls'[Len(calls')].id = next_id
             /\ next_id' = next_id + 1
        /\ (next_id' # next_id) => Len(calls') \in Assigned' /\ Len(calls') > Len(calls)
        /\ \A j, k \in Assigned' : j # k => calls'[j].id # calls'[k].id]_vars

\* two requests have their ids, with a response dispatched in between
C2_Witness ==
  /\ Cardinality(Assigned) = 2
  /\ next_id = 3
  /\ invoked # <<>>
  /\ lock # 0

\* C3: the ids given to any run of send_request calls are consecutive: for
\* the requests from the i-th to the j-th to take the lock, they are exactly
\* calls[i].id, calls[i].id + 1, ... without repeat or gap, whatever
\* notifications and dispatches fall in between; the first id is 1, the
\* next_id of a new client; a request has no id only when its lock() found
\* the Mutex poisoned.
C3_IdsConsecutive ==
  /\ \A i, j \in Assigned :
       i <= j =>
         LET run == {k \in Assigned : i <= k /\ k <= j}
         IN /\ {calls[k].id : k \in run} =
                 calls[i].id .. (calls[i].id + Cardinality(run) - 1)
            /\ Cardinality({calls[k].id : k \in run}) = Cardinality(run)
  /\ \A i \in Assigned : (\A k \in Assigned : i <= k) => calls[i].id = 1
  /\ \A k \in 1..Len(calls) :
       (calls[k].kind = "request" /\ k \notin Assigned) => calls[k].outcome = PanicPoisoned

\* two requests have taken the lock, and a response has been dispatched
C3_Witness ==
  /\ Cardinality(Assigned) >= 2
  /\ \E k \in 1..Len(calls) : calls[k].kind = "request" /\ calls[k].id = 2
  /\ resolved # <<>>

\* C4: the bytes on the outbound stream are the frames of the calls, one after
\* the other: the bytes of one call are never parted by bytes of another,
\* every call but the last to write has written its whole frame (the server's
\* read of it yields the call's body), and the last has written a prefix of
\* its frame.
C4_FramesNotInterleaved ==
  /\ \A i, l \in 1..Len(peer) :
       (i < l /\ peer_call[i] = peer_call[l]) => peer_call[l - 1] = peer_call[l]
  /\ \A k \in 1..Len(calls) :
       LET bytes == BytesOf(k, 1)
       IN /\ IsPrefix(bytes, FrameOf(calls[k]))
          /\ (bytes # <<>> /\ peer_call[Len(peer)] # k) =>
               /\ bytes = FrameOf(calls[k])
               /\ read_message(bytes, "open") = Result("Ok", "", BodyOf(calls[k]), <<>>)

\* a whole frame is followed by an unfinished frame of another call
C4_Witness ==
  /\ Len(calls) >= 2
  /\ calls[1].outcome = "returned"
  /\ calls[2].outcome = "running"
  /\ cbuf[2] # <<>> /\ Len(cbuf[2]) < Len(FrameOf(calls[2]))
  /\ calls[1].kind # calls[2].kind

\* C5: no callback is invoked twice, whatever the server sends (repeated
\* responses and errors for one id included); and every id that
\* handle_response or handle_error was called with while it was in the table
\* has had its callback invoked exactly once.
C5_CallbackAtMostOnce ==
  /\ \A i, j \in 1..Len(invoked) : i # j => invoked[i].cb # invoked[j].cb
  /\ \A i \in 1..Len(resolved) :
       resolved[i].cb # 0 =>
         Cardinality({j \in 1..Len(invoked) : invoked[j].cb = resolved[i].cb}) = 1
  /\ \A j \in 1..Len(invoked) :
       \E i \in 1..Len(resolved) : resolved[i].cb = invoked[j].cb

\* a response and then an error for the same id: one invocation
C5_Witness ==
  /\ Len(resolved) = 2
  /\ resolved[1].id = resolved[2].id
  /\ resolved[1].fn # resolved[2].fn
  /\ resolved[1].cb # 0
  /\ Len(invoked) = 1

\* C6: a second response for an id already resolved invokes nothing and
\* leaves the client as it was: the read loop runs on and the lock can be taken
\* by later calls and dispatches.
C6_DuplicateResponseHarmless ==
  \A i \in 1..Len(resolved) :
    (\E j \in 1..(i - 1) : resolved[j].id = resolved[i].id /\ resolved[j].cb # 0) =>
      /\ Len(invoked) = Cardinality(ResolvedIds)
      /\ rpc # "panicked"
      /\ ~poisoned

\* handle_msg has finished with the body it was given
Handled == rpc = "handle" /\ rpc' # "handle"

\* C7: when handle_msg is given a body with id N and a result, and N is
\* pending, the entry of N is removed, the others stay, and the callback
\* registered for N is invoked with Ok of the body's result.
C7_ResponseResolvesItsCallback ==
  [][\A n \in DOMAIN pending : \A r \in Results :
       (Handled /\ rval = <<IdTok(n), ResultTok(r)>>) =>
         /\ pending' = Remove(pending, n)
         /\ invoked' = Append(invoked, [cb |-> pending[n], arg |-> Ok(JStr(r))])]_vars

\* C8: when handle_msg is given a body with id N and an error object, and N
\* is pending, the entry of N is removed and its callback is invoked with Err
\* of the whole error object, code and message included.
C8_ErrorPayloadIsErrorObject ==
  [][\A n \in DOMAIN pending : \A e \in Errors :
       (Handled /\ rval = <<IdTok(n), ErrorTok(e)>>) =>
         /\ pending' = Remove(pending, n)
         /\ invoked' = Append(invoked, [cb |-> pending[n],
                                        arg |-> Err(ErrorObject(ErrorOf(e)))])]_vars

\* C9: a call whose write failed has returned a transport error to its caller,
\* the entry of a failed request is out of the pending table again, and the
\* client can still be used.
C9_WriteFailureRolledBack ==
  \A k \in 1..Len(calls) :
    calls[k].outcome \notin {"running", "returned", PanicPoisoned} =>
      /\ calls[k].outcome = "transport error"
      /\ calls[k].kind = "request" => calls[k].id \notin DOMAIN pending
      /\ ~poisoned

\* C10: once a read of the loop has met the end of the inbound stream, the
\* loop has stopped: it is not about to read again.
C10_LoopStopsAtStreamEnd == end_seen => rpc \notin {"read", "handle"}

\* a framed body that JsonRpc::parse rejects
Unparsable(body) == ~JsonRpcParse(body).ok
\* the well-formed responses and errors for id n
ResponsesFor(n) ==
  {<<IdTok(n), ResultTok(r)>> : r \in Results} \cup {<<IdTok(n), ErrorTok(e)>> : e \in Errors}
\* the loop has read and discarded a body that is not valid RPC data
GarbageDiscarded ==
  \E i \in 1..(Len(returned) - 1) :
    returned[i].status = "Ok" /\ Unparsable(returned[i].body)

\* C11: when handle_msg is given a framed body that is not valid RPC data,
\* next_id, the pending table and the callbacks invoked stay as they were and
\* the loop reads on; and when, after such a body was discarded, handle_msg is
\* given a well-formed response or error for a pending id, the callback of
\* that id is invoked.
C11_GarbageDiscardedLoopGoesOn ==
  [][/\ (Handled /\ Unparsable(rval)) =>
          /\ next_id' = next_id
          /\ pending' = pending
          /\ invoked' = invoked
          /\ rpc' = "read"
     /\ \A n \in DOMAIN pending :
          (Handled /\ GarbageDiscarded /\ rval \in ResponsesFor(n)) =>
            \E j \in 1..Len(invoked') : invoked'[j].cb = pending[n]]_vars

\* the frames that are valid, and those with one of the framing errors: a
\* header line without separator, no length header, a body that is not UTF-8
ValidFrames == {"plain", "typed", "upper"}
BadFrames == {"nosep", "nolength", "badutf8"}
\* the bytes of the child's output, how many of them have reached the pipe,
\* and the place where the i-th frame ends
Whole == StreamOf(input)
Delivered == Len(Whole) - Len(wire)
EndOf(i) == Len(StreamOf(SubSeq(input, 1, i)))
\* what read_message returns for a frame it accepts
Accepted(f) == [status |-> "Ok", error |-> "", body |-> FrameBody(f)]

\* C12: when a frame with a framing error is followed on the stream by a valid
\* frame and both have arrived, the loop's first read_message reports the
\* error and its second returns the body of the valid frame, leaving the
\* reader at the first byte after it.
C12_FramingErrorCostsOneFrame ==
  (/\ Len(input) >= 2 /\ input[1] \in BadFrames /\ input[2] \in ValidFrames
   /\ wire = <<>> /\ Len(returned) >= 2) =>
    /\ returned[1].status = "Err"
    /\ returned[2] = Accepted(input[2])
    /\ Len(returned) = 2 => stdout = Drop(Whole, EndOf(2))

\* nothing can happen any more: the calls are made, the writes are over, the
\* streams are closed and the loop has no frame left to read or handle
RunOver == ~ENABLED <<Next>>_vars
\* the number of times the callback of call k was invoked
Invocations(k) == Cardinality({j \in 1..Len(invoked) : invoked[j].cb = k})

\* C13: when the loop has met the end of the inbound stream and the run is
\* over, every pending call has been failed: the pending table is empty and
\* the callback of every request that was registered has been invoked once,
\* with the response it got or with an error outcome.
C13_PendingFailedAtClose ==
  (end_seen /\ RunOver) =>
    /\ pending = <<>>
    /\ \A k \in Assigned : Invocations(k) = 1

\* C14: when handle_msg is given a well-formed response or error for the id of
\* a request whose send_request has returned (the frame is written) and whose
\* callback is pending, the callback has been invoked by the time handle_msg
\* is done with the body, once, with one outcome: Ok or Err. A dispatch that
\* ends without the invocation ends the read loop, so that the callback is
\* never invoked.
C14_AnsweredRequestGetsOneOutcome ==
  [][\A k \in Assigned :
       (/\ Handled
        /\ calls[k].outcome = "returned"
        /\ calls[k].id \in DOMAIN pending
        /\ rval \in ResponsesFor(calls[k].id)) =>
         /\ Invocations(k)' = 1
         /\ \A j \in 1..Len(invoked') :
              invoked'[j].cb = k => invoked'[j].arg.tag \in {"Ok", "Err"}]_vars

\* a body without an id: a notification of the peer
PeerNotification(body) ==
  HasTok(body, MethodTok) /\ ~\E n \in IdTokens : HasTok(body, IdTok(n))

\* C15: when handle_msg is given a body without an id, it calls neither
\* handle_response nor handle_error and does not take the lock: no callback is
\* invoked, next_id, the pending table and the Mutex are as before, whatever
\* is pending, and the loop reads on.
C15_PeerNotificationChangesNothing ==
  [][(Handled /\ PeerNotification(rval)) =>
       /\ next_id' = next_id
       /\ pending' = pending
       /\ invoked' = invoked
       /\ resolved' = resolved
       /\ lock' = lock /\ poisoned' = poisoned
       /\ rpc' = "read"]_vars

\* a notification of the peer was the last body handled, with two requests
\* pending and a sender inside its write
C15_Witness ==
  /\ returned # <<>>
  /\ returned[Len(returned)].status = "Ok"
  /\ PeerNotification(returned[Len(returned)].body)
  /\ rpc = "read"
  /\ Cardinality(DOMAIN pending) = 2
  /\ lock # 0 /\ peer_call # <<>> /\ peer_call[Len(peer_call)] = lock

\* a body that carries an id together with a result and an error
BothBody(body) ==
  /\ \E n \in IdTokens : HasTok(body, IdTok(n))
  /\ \E r \in Results : HasTok(body, ResultTok(r))
  /\ \E e \in Errors : HasTok(body, ErrorTok(e))

\* C16: when handle_msg is given a body with an id, a result and an error, no
\* callback is invoked, the pending table is unchanged and the loop reads on.
C16_BothResultAndErrorAbandoned ==
  [][(Handled /\ BothBody(rval)) =>
       /\ invoked' = invoked
       /\ pending' = pending
       /\ rpc' = "read"]_vars

\* C17: for the valid frames at the head of the stream, whatever chunks the
\* stream hands them over in: once the i-th frame has arrived, the i-th
\* result of read_message is its body, of exactly the declared length and
\* equal to the bytes that follow the blank line, and after it the reader
\* stands at the first byte after the body.
C17_BodyIsDeclaredBytes ==
  \A i \in 1..Len(input) :
    (/\ \A j \in 1..i : input[j] \in ValidFrames
     /\ Len(returned) >= i
     /\ EndOf(i) <= Delivered) =>
      /\ returned[i].status = "Ok"
      /\ Len(returned[i].body) = FrameLength(input[i])
      /\ returned[i].body = SubSeq(Whole, EndOf(i) - FrameLength(input[i]) + 1, EndOf(i))
      /\ returned[i] = Accepted(input[i])
      /\ Len(returned) = i => stdout \o wire = Drop(Whole, EndOf(i))

\* the body of a first valid frame was returned, and of a second valid frame,
\* with a newline in its body, all but the last byte has arrived: the chunk
\* ends inside the body
C17_Witness ==
  /\ Len(input) = 2 /\ input[1] \in ValidFrames /\ input[2] = "upper"
  /\ returned = <<Accepted(input[1])>>
  /\ Len(wire) = 1
  /\ stdout \o wire = FrameBytes("upper")

\* the call that holds the lock is a send_notification
NotifyingNow == lock # 0 /\ calls[lock].kind = "notification"

\* C18: a send_notification is given no id; from the moment it takes the lock
\* to its return (or panic) no step changes next_id or the pending table; and
\* neither the bytes it has written nor those it has yet to write hold an id
\* field: what the server reads from its frame is a body without an id.
C18_NotificationRegistersNothing ==
  /\ [](\A k \in 1..Len(calls) :
          calls[k].kind = "notification" =>
            /\ calls[k].id = 0
            /\ ~\E n \in IdTokens : HasTok(BytesOf(k, 1) \o cbuf[k], IdTok(n))
            /\ calls[k].outcome = "returned" =>
                 /\ read_message(BytesOf(k, 1), "open").status = "Ok"
                 /\ PeerNotification(read_message(BytesOf(k, 1), "open").body))
  /\ [][(\/ NotifyingNow
          \/ (Len(calls') > Len(calls) /\ calls'[Len(calls')].kind = "notification")) =>
           (next_id' = next_id /\ pending' = pending)]_vars

\* a send_notification has returned after a request that is still pending
C18_Witness ==
  /\ Len(calls) = 2
  /\ calls[1].kind = "request" /\ calls[1].outcome = "returned"
  /\ calls[2].kind = "notification" /\ calls[2].outcome = "returned"
  /\ DOMAIN pending = {1}
  /\ next_id = 2

\* the responses and errors among the bodies read_message returned to the
\* loop, in the order of the stream: the function and the id of the dispatch
RECURSIVE ResponsesIn(_)
ResponsesIn(log) ==
  IF log = <<>> THEN <<>>
  ELSE LET m == JsonRpcParse(Head(log).body)
       IN (IF Head(log).status = "Ok" /\ m.ok /\ m.id.some /\ (m.result.some \/ m.error.some)
             THEN <<[fn |-> IF m.result.some THEN "handle_response" ELSE "handle_error",
                     id |-> m.id.val]>>
           ELSE <<>>) \o ResponsesIn(Tail(log))
\* the dispatches made, and those of them that found a callback
Dispatched == [i \in 1..Len(resolved) |-> [fn |-> resolved[i].fn, id |-> resolved[i].id]]
RECURSIVE Found(_)
Found(log) ==
  IF log = <<>> THEN <<>>
  ELSE (IF Head(log).cb # 0 THEN <<Head(log)>> ELSE <<>>) \o Found(Tail(log))

\* C19: the dispatches are made in the order of the responses and errors on
\* the inbound stream, one at a time: all but at most the last frame read have
\* been dispatched, and the loop holds a frame not yet dispatched only while
\* it handles it (or has panicked on it); the callbacks are invoked in that
\* same order, each the callback of the request that carried the id of its
\* frame, with Ok for a response and Err for an error, whatever the order in
\* which the requests were sent.
C19_DispatchInStreamOrder ==
  LET R == ResponsesIn(returned)
      F == Found(resolved)
  IN /\ Len(Dispatched) <= Len(R)
     /\ Dispatched = SubSeq(R, 1, Len(Dispatched))
     /\ Len(R) - Len(Dispatched) <= 1
     /\ Len(R) > Len(Dispatched) => rpc \in {"handle", "panicked"}
     /\ Len(invoked) = Len(F)
     /\ \A j \in 1..Len(invoked) :
          /\ invoked[j].cb = F[j].cb
          /\ calls[invoked[j].cb].kind = "request"
          /\ calls[invoked[j].cb].id = F[j].id
          /\ invoked[j].arg.tag = (IF F[j].fn = "handle_response" THEN "Ok" ELSE "Err")

\* the second request was answered first: its callback was invoked first
C19_Witness ==
  /\ Len(invoked) = 2
  /\ invoked[1].cb = 2 /\ invoked[2].cb = 1
  /\ calls[1].id = 1 /\ calls[2].id = 2
  /\ invoked[1].arg.tag = "Err" /\ invoked[2].arg.tag = "Ok"

\* C20: when the first frame of the stream holds a header line whose name is
\* neither the length nor the content-type field, followed by a valid length
\* header, and the frame has arrived, read_message returns its body, as for
\* the same frame without that line.
C20_UnknownHeaderIgnored ==
  (/\ input # <<>> /\ input[1] = "unknown"
   /\ EndOf(1) <= Delivered
   /\ returned # <<>>) =>
    /\ returned[1] = Accepted("unknown")
    /\ Len(returned) = 1 => stdout \o wire = Drop(Whole, EndOf(1))

\* C21: over bounded pipes the client and a correct peer do not deadlock: in no
\* reachable state does a send hold the lock with bytes left to write and the
\* pipe of the child's stdin full, while the read loop waits for that lock with
\* a response it has read and the peer waits to write into the full pipe of
\* its stdout; and when nothing can move any more, no send holds the lock.
SenderBlocked ==
  lock # 0 /\ calls[lock].outcome = "running" /\ cbuf[lock] # <<>> /\ StdinRoom = 0
ReaderWaitsForLock ==
  /\ rpc = "handle"
  /\ lock # 0
  /\ LET m == JsonRpcParse(rval) IN m.ok /\ m.id.some /\ (m.result.some \/ m.error.some)
PeerBlocked == wire # <<>> /\ StdoutRoom = 0
\* no step of PipeNext can be taken: ReadMessage and ServerHandle can be taken
\* when the bytes there are decide a read, the other steps when enabled
CanReadMessage ==
  /\ rpc = "read"
  /\ \E st \in IF stdout_state = "open" THEN {"open"} ELSE {"eof", "broken"} :
       read_message(stdout, st).status # "Pending"
CanServerHandle == wire = <<>> /\ read_message(srv_buf, "open").status = "Ok"
PipeOver ==
  /\ ~CanReadMessage
  /\ ~CanServerHandle
  /\ ~ENABLED <<SendRequest \/ SendNotification \/ (\E k \in 1..Len(calls) : PipeWrite(k))
                 \/ fill_buf \/ HandleMsg \/ ServerTake \/ ServerWrite>>_vars
C21_NoDeadlockOverBoundedPipes ==
  /\ ~(SenderBlocked /\ ReaderWaitsForLock /\ PeerBlocked)
  /\ PipeOver => lock = 0

====
